---- MODULE Spec2Model ----
(***************************************************************************)
(* A model of the UrbanMart daily sales aggregation                       *)
(* (src/urbanmart_analysis.py, compute_daily_sales) and of the dashboard   *)
(* script that slices its output (src/app.py, lines 11-19).                *)
(*                                                                         *)
(* Time is counted in ticks: a timestamp is day * TicksPerDay + tod, where *)
(* tod is the time of day.  Day 1 is a Monday.  Amounts are integers, and  *)
(* a mean is kept as the exact fraction <<sum, count>>.                    *)
(***************************************************************************)
EXTENDS Integers, Sequences, FiniteSets, TLC

\* ---------------------------------------------------------------- bounds
MaxRecs == 2
MaxDay == 9
TicksPerDay == 2

\* ------------------------------------------------------ program constants
Window == 7
MinPeriods == 1
None == 0
NaT == -1

\* ------------------------------------------------------------ input sets
Dates == {1, 2, MaxDay}
TimedDates == {1, 2}
TransactionIds == {1, 2}
Quantities == {2}
UnitPrices == {3}
Discounts == {0, 7}
Weekdays == <<"Monday", "Tuesday", "Wednesday", "Thursday", "Friday",
              "Saturday", "Sunday">>

\* The rows a CSV file may hold, their date cells taken from days \X tods.
CsvRows(days, tods) ==
    [transaction_id : TransactionIds, date : days \X tods,
     quantity : Quantities, unit_price : UnitPrices,
     discount_applied : Discounts]

CsvFiles(rows) == UNION {[1..n -> rows] : n \in 0..MaxRecs}

VARIABLES csv, start_date, end_date, pc, df, grouped, span, result, error,
          start, end, df_filtered

vars == <<csv, start_date, end_date, pc, df, grouped, span, result, error,
          start, end, df_filtered>>

\* --------------------------------------------------- compute_daily_sales
\* pd.to_datetime of a calendar date: midnight of that day.
to_datetime(day) == day * TicksPerDay

\* The calendar day of a timestamp (Timestamp.date()).
date(ts) == ts \div TicksPerDay

\* parse_dates: a date cell <<day, tod>> becomes a timestamp, its time of
\* day kept.
parse_date(cell) == cell[1] * TicksPerDay + cell[2]

read_csv(file) ==
    [i \in DOMAIN file |->
        [transaction_id |-> file[i].transaction_id,
         date |-> parse_date(file[i].date),
         quantity |-> file[i].quantity,
         unit_price |-> file[i].unit_price,
         discount_applied |-> file[i].discount_applied]]

LineRevenueNoDiscount(r) == r.quantity * r.unit_price

line_revenue(r) == r.quantity * r.unit_price - r.discount_applied

WithLineRevenue(d) ==
    [i \in DOMAIN d |->
        [transaction_id |-> d[i].transaction_id,
         date |-> d[i].date,
         quantity |-> d[i].quantity,
         unit_price |-> d[i].unit_price,
         discount_applied |-> d[i].discount_applied,
         line_revenue |-> line_revenue(d[i])]]

FilterStartStrict(d, s) ==
    IF s # None THEN SelectSeq(d, LAMBDA r : r.date > to_datetime(s)) ELSE d

FilterStart(d, s) ==
    IF s # None THEN SelectSeq(d, LAMBDA r : r.date >= to_datetime(s)) ELSE d

FilterEnd(d, e) ==
    IF e # None THEN SelectSeq(d, LAMBDA r : r.date <= to_datetime(e)) ELSE d

\* agg 'sum' of line_revenue over the rows of one group, in row order.
RECURSIVE SumRevenue(_, _)
SumRevenue(d, key) ==
    IF d = <<>> THEN 0
    ELSE (IF Head(d).date = key THEN Head(d).line_revenue ELSE 0)
         + SumRevenue(Tail(d), key)

NUniqueRows(d, key) == Cardinality({j \in DOMAIN d : d[j].date = key})

\* agg 'nunique' of transaction_id over the rows of one group.
NUnique(d, key) ==
    Cardinality({d[j].transaction_id : j \in {i \in DOMAIN d : d[i].date = key}})

RECURSIVE SortIndex(_)
SortIndex(keys) ==
    IF keys = {} THEN <<>>
    ELSE LET m == CHOOSE k \in keys : \A o \in keys : k <= o
         IN  <<m>> \o SortIndex(keys \ {m})

\* df.groupby(date_col).agg(...).sort_index(): one row per distinct
\* timestamp of the date column.
GroupByAgg(d) ==
    LET idx == SortIndex({d[i].date : i \in DOMAIN d})
    IN  [k \in DOMAIN idx |->
            [date |-> idx[k],
             daily_revenue |-> SumRevenue(d, idx[k]),
             daily_transactions |-> NUnique(d, idx[k])]]

\* Index.min() / Index.max(): NaT over an empty index.
IndexMin(g) ==
    IF g = <<>> THEN NaT
    ELSE CHOOSE t \in {g[i].date : i \in DOMAIN g} :
            \A j \in DOMAIN g : t <= g[j].date

IndexMax(g) ==
    IF g = <<>> THEN NaT
    ELSE CHOOSE t \in {g[i].date : i \in DOMAIN g} :
            \A j \in DOMAIN g : t >= g[j].date

DateRangeNeverRaises(lo, hi) == FALSE

\* pd.date_range raises ValueError when a bound is NaT.
DateRangeRaises(lo, hi) == lo = NaT \/ hi = NaT

DateRangeOpenEnd(lo, hi) ==
    [k \in 1..((hi - lo) \div TicksPerDay) |-> lo + (k - 1) * TicksPerDay]

\* pd.date_range(lo, hi, freq='D'): lo, lo + 1 day, ... while <= hi.
DateRange(lo, hi) ==
    [k \in 1..((hi - lo) \div TicksPerDay + 1) |-> lo + (k - 1) * TicksPerDay]

FillRow(ts) == [date |-> ts, daily_revenue |-> 0, daily_transactions |-> 0]

ReindexFfill(g, full_index) ==
    [k \in DOMAIN full_index |->
        LET before == {j \in DOMAIN g : g[j].date <= full_index[k]}
            last == CHOOSE j \in before : \A o \in before : o <= j
        IN  IF before = {} THEN FillRow(full_index[k])
            ELSE [date |-> full_index[k],
                  daily_revenue |-> g[last].daily_revenue,
                  daily_transactions |-> g[last].daily_transactions]]

\* grouped.reindex(full_index, fill_value=0.0): the rows whose label is in
\* full_index are kept, the other labels of full_index are filled, and a
\* row whose label is not in full_index is dropped.
Reindex(g, full_index) ==
    [k \in DOMAIN full_index |->
        IF \E j \in DOMAIN g : g[j].date = full_index[k]
        THEN g[CHOOSE j \in DOMAIN g : g[j].date = full_index[k]]
        ELSE FillRow(full_index[k])]

RECURSIVE ShiftedTotal(_, _)
ShiftedTotal(g, n) ==
    IF n <= 1 THEN 0 ELSE ShiftedTotal(g, n - 1) + g[n - 1].daily_revenue

\* Series.cumsum(): the running total up to and including row n.
RECURSIVE RunningTotal(_, _)
RunningTotal(g, n) ==
    IF n = 0 THEN 0 ELSE RunningTotal(g, n - 1) + g[n].daily_revenue

WithCumulativeRevenue(g) ==
    [k \in DOMAIN g |->
        [date |-> g[k].date,
         daily_revenue |-> g[k].daily_revenue,
         daily_transactions |-> g[k].daily_transactions,
         cumulative_revenue |-> RunningTotal(g, k)]]

RECURSIVE ExpandingSum(_, _)
ExpandingSum(g, n) ==
    IF n = 0 THEN 0 ELSE ExpandingSum(g, n - 1) + g[n].daily_revenue

\* The sliding sum of rolling(Window): row n is added, and the row that
\* left the window, n - Window, is removed.
RECURSIVE RollSum(_, _)
RollSum(g, n) ==
    IF n = 0 THEN 0
    ELSE RollSum(g, n - 1) + g[n].daily_revenue
         - (IF n > Window THEN g[n - Window].daily_revenue ELSE 0)

\* The number of observations in the window that ends at row n.
NObs(n) == IF n < Window THEN n ELSE Window

\* rolling(Window, min_periods=MinPeriods).mean() at row n, as the fraction
\* <<sum, count>>; <<0, 0>> stands for NaN.
RollingMean(g, n) ==
    IF NObs(n) >= MinPeriods THEN <<RollSum(g, n), NObs(n)>> ELSE <<0, 0>>

WithMovingAvg(g) ==
    [k \in DOMAIN g |->
        [date |-> g[k].date,
         daily_revenue |-> g[k].daily_revenue,
         daily_transactions |-> g[k].daily_transactions,
         cumulative_revenue |-> g[k].cumulative_revenue,
         moving_avg_7d |-> RollingMean(g, k)]]

\* DatetimeIndex.day_name().
day_name(ts) == Weekdays[((date(ts) - 1) % 7) + 1]

WithDayOfWeek(g) ==
    [k \in DOMAIN g |->
        [date |-> g[k].date,
         daily_revenue |-> g[k].daily_revenue,
         daily_transactions |-> g[k].daily_transactions,
         cumulative_revenue |-> g[k].cumulative_revenue,
         moving_avg_7d |-> g[k].moving_avg_7d,
         day_of_week |-> day_name(g[k].date)]]

\* The whole function: the table it returns, or <<>> when it raises.
compute_daily_sales(file, s, e) ==
    LET g == GroupByAgg(FilterEnd(FilterStart(WithLineRevenue(read_csv(file)), s), e))
    IN  IF DateRangeRaises(IndexMin(g), IndexMax(g)) THEN <<>>
        ELSE WithDayOfWeek(WithMovingAvg(WithCumulativeRevenue(
                 Reindex(g, DateRange(IndexMin(g), IndexMax(g))))))

\* ------------------------------------------------------------- dashboard
LocOpenEnd(t, a, b) == SelectSeq(t, LAMBDA r : a <= r.date /\ r.date < b)

\* df_daily.loc[a:b]: label slicing of a sorted index, both ends included.
Loc(t, a, b) == SelectSeq(t, LAMBDA r : a <= r.date /\ r.date <= b)

\* --------------------------------------------------------------- actions
InitWith(files) ==
    /\ csv \in files
    /\ start_date \in {None} \cup Dates
    /\ end_date \in {None} \cup Dates
    /\ pc = "read_csv"
    /\ df = <<>>
    /\ grouped = <<>>
    /\ span = <<>>
    /\ result = <<>>
    /\ error = "none"
    /\ start = None
    /\ end = None
    /\ df_filtered = <<>>

\* The date column holds calendar dates.
Init == InitWith(CsvFiles(CsvRows(Dates, {0})))

\* The date column holds timestamps with a time of day.
InitTimed == InitWith(CsvFiles(CsvRows(TimedDates, 0..(TicksPerDay - 1))))

ReadCsv ==
    /\ pc = "read_csv"
    /\ df' = WithLineRevenue(read_csv(csv))
    /\ pc' = "filter_start"
    /\ UNCHANGED <<csv, start_date, end_date, grouped, span, result, error,
                   start, end, df_filtered>>

ApplyFilterStart ==
    /\ pc = "filter_start"
    /\ df' = FilterStart(df, start_date)
    /\ pc' = "filter_end"
    /\ UNCHANGED <<csv, start_date, end_date, grouped, span, result, error,
                   start, end, df_filtered>>

ApplyFilterEnd ==
    /\ pc = "filter_end"
    /\ df' = FilterEnd(df, end_date)
    /\ pc' = "groupby"
    /\ UNCHANGED <<csv, start_date, end_date, grouped, span, result, error,
                   start, end, df_filtered>>

GroupBy ==
    /\ pc = "groupby"
    /\ grouped' = GroupByAgg(df)
    /\ pc' = "index_span"
    /\ UNCHANGED <<csv, start_date, end_date, df, span, result, error,
                   start, end, df_filtered>>

\* The arguments of date_range: grouped.index.min(), grouped.index.max().
IndexSpan ==
    /\ pc = "index_span"
    /\ span' = <<IndexMin(grouped), IndexMax(grouped)>>
    /\ pc' = "date_range"
    /\ UNCHANGED <<csv, start_date, end_date, df, grouped, result, error,
                   start, end, df_filtered>>

ReindexRaise ==
    /\ pc = "date_range"
    /\ DateRangeRaises(span[1], span[2])
    /\ error' = "ValueError"
    /\ pc' = "raised"
    /\ UNCHANGED <<csv, start_date, end_date, df, grouped, span, result,
                   start, end, df_filtered>>

ReindexFull ==
    /\ pc = "date_range"
    /\ ~DateRangeRaises(span[1], span[2])
    /\ grouped' = Reindex(grouped, DateRange(span[1], span[2]))
    /\ pc' = "cumsum"
    /\ UNCHANGED <<csv, start_date, end_date, df, span, result, error,
                   start, end, df_filtered>>

CumSum ==
    /\ pc = "cumsum"
    /\ grouped' = WithCumulativeRevenue(grouped)
    /\ pc' = "rolling"
    /\ UNCHANGED <<csv, start_date, end_date, df, span, result, error,
                   start, end, df_filtered>>

Rolling ==
    /\ pc = "rolling"
    /\ grouped' = WithMovingAvg(grouped)
    /\ pc' = "day_name"
    /\ UNCHANGED <<csv, start_date, end_date, df, span, result, error,
                   start, end, df_filtered>>

DayOfWeek ==
    /\ pc = "day_name"
    /\ grouped' = WithDayOfWeek(grouped)
    /\ pc' = "return"
    /\ UNCHANGED <<csv, start_date, end_date, df, span, result, error,
                   start, end, df_filtered>>

Return ==
    /\ pc = "return"
    /\ result' = grouped
    /\ pc' = "returned"
    /\ UNCHANGED <<csv, start_date, end_date, df, grouped, span, error,
                   start, end, df_filtered>>

\* app.py calls compute_daily_sales without bounds, and offers the days
\* between the first and the last row of the table as the selection; the
\* two days selected are drawn from Dates, in either order.
DateInput ==
    /\ pc = "returned"
    /\ start_date = None /\ end_date = None
    /\ LET min_date == date(IndexMin(result))
           max_date == date(IndexMax(result))
       IN  /\ start' \in {d \in Dates : min_date <= d /\ d <= max_date}
           /\ end' \in {d \in Dates : min_date <= d /\ d <= max_date}
    /\ pc' = "selected"
    /\ UNCHANGED <<csv, start_date, end_date, df, grouped, span, result,
                   error, df_filtered>>

Slice ==
    /\ pc = "selected"
    /\ df_filtered' = Loc(result, to_datetime(start), to_datetime(end))
    /\ pc' = "sliced"
    /\ UNCHANGED <<csv, start_date, end_date, df, grouped, span, result,
                   error, start, end>>

Next ==
    \/ ReadCsv
    \/ ApplyFilterStart
    \/ ApplyFilterEnd
    \/ GroupBy
    \/ IndexSpan
    \/ ReindexRaise
    \/ ReindexFull
    \/ CumSum
    \/ Rolling
    \/ DayOfWeek
    \/ Return
    \/ DateInput
    \/ Slice

Spec == Init /\ [][Next]_vars

SpecTimed == InitTimed /\ [][Next]_vars

\* ------------------------------------------------- the input, as given
\* The calendar day written in row i of the file.
Day(i) == csv[i].date[1]

\* Row i passes the bounds s and e (None: no bound), both inclusive.
Survives(i, s, e) ==
    /\ (s = None \/ Day(i) >= s)
    /\ (e = None \/ Day(i) <= e)

SurvivingIn(s, e) == {i \in DOMAIN csv : Survives(i, s, e)}

Surviving == SurvivingIn(start_date, end_date)

OnDay(d) == {i \in Surviving : Day(i) = d}

RowRevenue(i) == csv[i].quantity * csv[i].unit_price - csv[i].discount_applied

RECURSIVE SumOver(_)
SumOver(S) ==
    IF S = {} THEN 0
    ELSE LET i == CHOOSE x \in S : TRUE
         IN  RowRevenue(i) + SumOver(S \ {i})

FirstDay == CHOOSE d \in {Day(i) : i \in Surviving} :
                \A i \in Surviving : d <= Day(i)

LastDay == CHOOSE d \in {Day(i) : i \in Surviving} :
               \A i \in Surviving : d >= Day(i)

\* The sum of daily_revenue over the rows lo..hi of table t.
RECURSIVE SumDaily(_, _, _)
SumDaily(t, lo, hi) ==
    IF lo > hi THEN 0 ELSE t[hi].daily_revenue + SumDaily(t, lo, hi - 1)

\* The file row a row of df was read from.
CsvRowOf(r) ==
    [transaction_id |-> r.transaction_id,
     date |-> <<date(r.date), r.date % TicksPerDay>>,
     quantity |-> r.quantity,
     unit_price |-> r.unit_price,
     discount_applied |-> r.discount_applied]

Returned == pc \in {"returned", "selected", "sliced"}

Rows == DOMAIN result

\* ---------------------------------------------------------------- claims
\* C1: for a non-empty set of surviving records with earliest day d0 and
\* latest day dn, the table has exactly dn - d0 + 1 rows, row k being day
\* d0 + k - 1: every calendar day of the span once, in ascending order.
C1_Completeness ==
    (Returned /\ Surviving # {}) =>
        /\ Len(result) = LastDay - FirstDay + 1
        /\ \A k \in Rows : result[k].date = to_datetime(FirstDay + k - 1)

\* C1 witness: a file whose rows are out of date order, with a day without
\* records inside the span.
C1_Witness ==
    /\ Returned
    /\ Len(csv) = 2 /\ Day(1) > Day(2)
    /\ Surviving = {1, 2}
    /\ \E d \in FirstDay..LastDay : OnDay(d) = {}
    /\ Len(result) = LastDay - FirstDay + 1

\* C2: on every day of the table that has a surviving record,
\* daily_revenue is the sum over that day's records of
\* quantity * unit_price - discount_applied, each line item counted once.
C2_DailyRevenue ==
    Returned =>
        \A k \in Rows :
            LET d == date(result[k].date)
            IN  OnDay(d) # {} => result[k].daily_revenue = SumOver(OnDay(d))

\* C2 witness: a day with two line items of one transaction, one of them
\* of negative revenue.
C2_Witness ==
    /\ Returned
    /\ \E k \in Rows :
          LET d == date(result[k].date)
          IN  /\ Cardinality(OnDay(d)) = 2
              /\ \A i, j \in OnDay(d) :
                    csv[i].transaction_id = csv[j].transaction_id
              /\ \E i \in OnDay(d) : RowRevenue(i) < 0
              /\ \E i \in OnDay(d) : RowRevenue(i) > 0
              /\ result[k].daily_revenue = SumOver(OnDay(d))

\* C3: on every day of the table, daily_transactions is the number of
\* distinct transaction_id values among that day's surviving records.
C3_DistinctTransactions ==
    Returned =>
        \A k \in Rows :
            LET d == date(result[k].date)
            IN  result[k].daily_transactions =
                    Cardinality({csv[i].transaction_id : i \in OnDay(d)})

\* C3 witness: two line items with the same transaction_id on one day,
\* counted as one transaction.
C3_Witness ==
    /\ Returned
    /\ \E k \in Rows :
          /\ Cardinality(OnDay(date(result[k].date))) = 2
          /\ result[k].daily_transactions = 1

\* C4: a day of the span without surviving records has daily_revenue 0 and
\* daily_transactions 0, and daily_transactions is 0 on no other day.
C4_ZeroFill ==
    Returned =>
        \A k \in Rows :
            LET d == date(result[k].date)
            IN  /\ OnDay(d) = {} =>
                      /\ result[k].daily_revenue = 0
                      /\ result[k].daily_transactions = 0
                /\ result[k].daily_transactions = 0 => OnDay(d) = {}

\* C4 witness: a filled day between two days that have records.
C4_Witness ==
    /\ Returned
    /\ \E k \in Rows :
          /\ 1 < k /\ k < Len(result)
          /\ OnDay(date(result[k].date)) = {}
          /\ result[k].daily_transactions = 0
          /\ result[k - 1].daily_transactions > 0

C6_InclusiveBounds ==
    /\ pc = "groupby" =>
          /\ \A j \in DOMAIN df : \E i \in Surviving : csv[i] = CsvRowOf(df[j])
          /\ \A i \in DOMAIN csv :
                Cardinality({j \in DOMAIN df : CsvRowOf(df[j]) = csv[i]})
                    = Cardinality({m \in Surviving : csv[m] = csv[i]})
    /\ (Returned /\ Surviving # {}) =>
          /\ result[1].date = to_datetime(FirstDay)
          /\ result[Len(result)].date = to_datetime(LastDay)
          /\ \A i \in Surviving :
                \E k \in Rows :
                    /\ result[k].date = to_datetime(Day(i))
                    /\ result[k].daily_transactions >= 1

\* C6 witness: a record dated on start_date is counted, another record is
\* excluded, and the table ends before end_date.
C6_Witness ==
    /\ Returned
    /\ start_date # None /\ end_date # None
    /\ \E i \in Surviving : Day(i) = start_date
    /\ \E i \in DOMAIN csv : i \notin Surviving
    /\ LastDay < end_date
    /\ result[1].date = to_datetime(start_date)
    /\ result[1].daily_transactions >= 1

\* C7: the time of day is discarded: called without bounds, every calendar
\* day that has a record has exactly one row, which sums all the records
\* of that day and counts their distinct transactions.
C7_TimeOfDayDiscarded ==
    (Returned /\ start_date = None /\ end_date = None) =>
        \A i \in DOMAIN csv :
            /\ Cardinality({k \in Rows : date(result[k].date) = Day(i)}) = 1
            /\ \A k \in Rows :
                  date(result[k].date) = Day(i) =>
                      /\ result[k].daily_revenue = SumOver(OnDay(Day(i)))
                      /\ result[k].daily_transactions =
                            Cardinality({csv[j].transaction_id : j \in OnDay(Day(i))})

\* C8: cumulative_revenue of row n is the sum of daily_revenue over rows
\* 1..n of the filled table; it does not decrease when no daily_revenue is
\* negative; and the last row holds the total revenue of the surviving
\* records.
C8_CumulativeRevenue ==
    Returned =>
        /\ \A n \in Rows :
              result[n].cumulative_revenue = SumDaily(result, 1, n)
        /\ (\A k \in Rows : result[k].daily_revenue >= 0) =>
              \A n \in Rows :
                  n > 1 => result[n].cumulative_revenue
                               >= result[n - 1].cumulative_revenue
        /\ Rows # {} =>
              result[Len(result)].cumulative_revenue = SumOver(Surviving)

\* C8 witness: revenue on the first day, filled days, then revenue again on
\* the last day.
C8_Witness ==
    /\ Returned
    /\ Len(result) >= 3
    /\ result[1].daily_revenue > 0
    /\ result[2].daily_transactions = 0
    /\ result[Len(result)].daily_revenue # 0
    /\ result[Len(result)].cumulative_revenue
          = result[1].daily_revenue + result[Len(result)].daily_revenue

\* C9: moving_avg_7d of row i is the mean of daily_revenue over the rows
\* max(1, i - 6)..i of the filled table: min(i, 7) members, never none.
C9_MovingAverage ==
    Returned =>
        \A i \in Rows :
            LET lo == IF i - (Window - 1) > 1 THEN i - (Window - 1) ELSE 1
                m == result[i].moving_avg_7d
            IN  /\ m[2] = (IF i < Window THEN i ELSE Window)
                /\ m[2] = i - lo + 1
                /\ m[2] >= 1
                /\ m[1] = SumDaily(result, lo, i)

\* C9 witness: a table longer than the window, whose first row has revenue
\* and has left the window of the last row.
C9_Witness ==
    /\ Returned
    /\ Len(result) > Window
    /\ result[1].daily_revenue # 0
    /\ result[Len(result)].daily_revenue # 0
    /\ result[Len(result)].moving_avg_7d
          = <<result[Len(result)].daily_revenue, Window>>

\* C10: for a selection start <= end holding a record, every row of
\* compute_daily_sales(records, start, end) has the daily_revenue and the
\* daily_transactions of the row of that day in the slice start..end of
\* the table computed without bounds; the slice lies within the selection
\* and its other rows are filled days.
C10_FilterAgreesWithSlice ==
    (pc = "sliced" /\ start <= end /\ SurvivingIn(start, end) # {}) =>
        LET t == compute_daily_sales(csv, start, end)
        IN  /\ t # <<>>
            /\ \A k \in DOMAIN t :
                  \E j \in DOMAIN df_filtered :
                      /\ df_filtered[j].date = t[k].date
                      /\ df_filtered[j].daily_revenue = t[k].daily_revenue
                      /\ df_filtered[j].daily_transactions
                            = t[k].daily_transactions
            /\ \A j \in DOMAIN df_filtered :
                  /\ to_datetime(start) <= df_filtered[j].date
                  /\ df_filtered[j].date <= to_datetime(end)
                  /\ (\A k \in DOMAIN t : t[k].date # df_filtered[j].date) =>
                        /\ df_filtered[j].daily_revenue = 0
                        /\ df_filtered[j].daily_transactions = 0

\* C10 witness: a slice with filled days before the first record of the
\* selection, and a cumulative_revenue that the bounded call does not give.
C10_Witness ==
    /\ pc = "sliced"
    /\ start <= end
    /\ SurvivingIn(start, end) # {}
    /\ LET t == compute_daily_sales(csv, start, end)
       IN  /\ Len(df_filtered) > Len(t)
           /\ df_filtered[1].daily_transactions = 0
           /\ df_filtered[Len(df_filtered)].date = t[Len(t)].date
           /\ df_filtered[Len(df_filtered)].cumulative_revenue
                 # t[Len(t)].cumulative_revenue

====
